---- MODULE Spec2Model ----
(***************************************************************************)
(* Location-to-country resolution of analyze/diagrams.py: the text         *)
(* normalizer, the alias lookup builder, the location resolver and the     *)
(* aggregation / join step of plot_country_heatmap.                        *)
(*                                                                         *)
(* A Python str is a sequence of characters; a character is a one-element  *)
(* name.  "E_acute" / "e_acute" are the precomposed letters U+00C9/U+00E9  *)
(* and "acute" is the combining mark U+0301.                               *)
(***************************************************************************)
EXTENDS Integers, Sequences, FiniteSets

\* ------------------------------------------------------------------ bounds
MaxLen == 3          \* longest input string of the normalizer runs
MaxRecords == 2      \* most rows of the reference dataset
MaxRows == 2         \* most rows of the jobs table

\* -------------------------------------------------------------- characters
LowerLetters ==
  <<"a","b","c","d","e","f","g","h","i","j","k","l","m",
    "n","o","p","q","r","s","t","u","v","w","x","y","z">>

UpperLetters ==
  <<"A","B","C","D","E","F","G","H","I","J","K","L","M",
    "N","O","P","Q","R","S","T","U","V","W","X","Y","Z">>

Range(f) == {f[i] : i \in DOMAIN f}

AsciiLower == Range(LowerLetters)

AsciiUpper == Range(UpperLetters)

IndexIn(seq, ch) == CHOOSE i \in DOMAIN seq : seq[i] = ch

\* unicodedata.normalize("NFKD", .) on one character
NFKD(ch) ==
  IF ch = "E_acute" THEN <<"E", "acute">>
  ELSE IF ch = "e_acute" THEN <<"e", "acute">>
  ELSE <<ch>>

\* unicodedata.combining(ch) # 0
combining(ch) == ch = "acute"

LowerOf == [ch \in AsciiUpper |-> LowerLetters[IndexIn(UpperLetters, ch)]]

UpperOf == [ch \in AsciiLower |-> UpperLetters[IndexIn(LowerLetters, ch)]]

\* str.lower on one character
lower(ch) ==
  IF ch \in AsciiUpper THEN LowerOf[ch]
  ELSE IF ch = "E_acute" THEN "e_acute"
  ELSE ch

\* \s of the re module / the characters str.strip removes
IsSpace(ch) == ch \in {" ", "\t"}

\* \w of the re module (str pattern): alphanumerics and the underscore
Digits == {"0", "1", "2", "3", "4", "5", "6", "7", "8", "9"}

IsWord(ch) ==
  ch \in AsciiLower \cup AsciiUpper \cup Digits \cup {"E_acute", "e_acute", "_"}

\* ----------------------------------------------------------------- strings
RECURSIVE nfkd_str(_)
nfkd_str(s) == IF s = <<>> THEN <<>> ELSE NFKD(Head(s)) \o nfkd_str(Tail(s))

strip_accents(s) == SelectSeq(s, LAMBDA ch : ~combining(ch))

lower_str(s) == [i \in 1..Len(s) |-> lower(s[i])]

RECURSIVE lstrip(_)
lstrip(s) == IF s # <<>> /\ IsSpace(Head(s)) THEN lstrip(Tail(s)) ELSE s

RECURSIVE rstrip(_)
rstrip(s) ==
  IF s # <<>> /\ IsSpace(s[Len(s)]) THEN rstrip(SubSeq(s, 1, Len(s) - 1)) ELSE s

strip(s) == rstrip(lstrip(s))

\* re.sub(r"[^\w\s]", " ", s)
drop_punctuation(s) ==
  [i \in 1..Len(s) |-> IF IsWord(s[i]) \/ IsSpace(s[i]) THEN s[i] ELSE " "]

\* re.sub(r"\s+", " ", s)
RECURSIVE collapse_spaces(_)
collapse_spaces(s) ==
  IF s = <<>> THEN <<>>
  ELSE IF IsSpace(Head(s)) THEN <<" ">> \o collapse_spaces(lstrip(s))
  ELSE <<Head(s)>> \o collapse_spaces(Tail(s))

\* None, float NaN, a list-like value and a number, as cell values
NoneVal == <<"<None>">>

NaN == <<"<NaN>">>

ListVal == <<"<list>">>

NumVal == <<"<num>">>

\* ------------------------------------------------------------------ state
VARIABLES
  text,                  \* normalizer run: the input string s
  variant,               \* normalizer run: s with one case/accent/punctuation edit
  key,                   \* _normalize_text(text)
  key_variant,           \* _normalize_text(variant)
  key_again,             \* _normalize_text(key)
  npc,                   \* position of the normalizer run
  world,                 \* the reference dataset (columns and rows)
  df,                    \* the rows of df["location"] read so far
  allow_us_state_guess,  \* keyword argument of plot_country_heatmap
  pc,                    \* position inside plot_country_heatmap
  picked_name_col,       \* name_col, the column pick_country_name_column returned
  row_i,                 \* next row of world[candidate_cols].iterrows()
  lookup,                \* the dict built by build_country_lookup
  countries,             \* the resolved series
  country_counts,        \* df_countries.value_counts()
  merged,                \* rows of world.merge(cc, on="_join_name", how="left")
  errors_imported,       \* jobs.py: "from pandas.errors import ..." succeeded
  output_file,           \* self.output_file: "None" or the path of jobs.csv
  csv_exists,            \* self.output_file.exists()
  fpc,                   \* position inside on_feeds_ready
  attempt_i,             \* the loop variable i of on_feeds_ready
  calls,                 \* number of calls of make_all_charts so far
  raised,                \* what the latest make_all_charts call raised
  logged,                \* the closing log line of on_feeds_ready
  propagated             \* an exception left on_feeds_ready

norm_vars == <<text, variant, key, key_variant, key_again, npc>>

heat_vars == <<world, df, allow_us_state_guess, pc, picked_name_col, row_i,
               lookup, countries, country_counts, merged>>

feed_vars == <<errors_imported, output_file, csv_exists, fpc, attempt_i, calls,
               raised, logged, propagated>>

vars == <<norm_vars, heat_vars, feed_vars>>

\* _normalize_text(s)
_normalize_text(s) ==
  IF s = NoneVal THEN <<>>
  ELSE collapse_spaces(drop_punctuation(
         strip(lower_str(strip_accents(nfkd_str(s))))))

\* ------------------------------------------------- normalizer run (inputs)
NormAlphabet == {"a", "E", "e_acute", ".", " ", "\t"}

Punctuation == {".", ","}

RECURSIVE StringsUpTo(_, _)
StringsUpTo(alphabet, n) ==
  IF n = 0 THEN {<<>>}
  ELSE LET shorter == StringsUpTo(alphabet, n - 1)
       IN  shorter \cup {Append(s, ch) : s \in shorter, ch \in alphabet}

\* the other case of a letter (str.swapcase on one character)
swapcase(ch) ==
  IF ch \in AsciiUpper THEN LowerOf[ch]
  ELSE IF ch \in AsciiLower THEN UpperOf[ch]
  ELSE IF ch = "E_acute" THEN "e_acute"
  ELSE IF ch = "e_acute" THEN "E_acute"
  ELSE ch

\* the same letter with / without its acute accent
swapaccent(ch) ==
  IF ch = "e" THEN "e_acute"
  ELSE IF ch = "e_acute" THEN "e"
  ELSE IF ch = "E" THEN "E_acute"
  ELSE IF ch = "E_acute" THEN "E"
  ELSE ch

\* dict.setdefault(k, v): the first writer of a key keeps it
dict_set_keep_first(d, k, v) ==
  [x \in DOMAIN d \cup {k} |-> IF x \in DOMAIN d THEN d[x] ELSE v]

\* lookup[k] = v on a dict
dict_set(d, k, v) ==
  [x \in DOMAIN d \cup {k} |-> IF x = k THEN v ELSE d[x]]

\* {}
EmptyDict == [x \in {} |-> <<>>]

IdleWorld == [columns |-> <<>>, rows |-> <<>>]

HeatIdle ==
  /\ world = IdleWorld
  /\ df = <<>>
  /\ allow_us_state_guess = FALSE
  /\ pc = "idle"
  /\ picked_name_col = ""
  /\ row_i = 1
  /\ lookup = EmptyDict
  /\ countries = <<>>
  /\ country_counts = EmptyDict
  /\ merged = {}

\* JobsSpider.__init__: no output file, analytics hook not running
FeedsIdle ==
  /\ errors_imported = TRUE
  /\ output_file = "None"
  /\ csv_exists = FALSE
  /\ fpc = "idle"
  /\ attempt_i = 0
  /\ calls = 0
  /\ raised = "none"
  /\ logged = ""
  /\ propagated = FALSE

InitNorm ==
  /\ text \in StringsUpTo(NormAlphabet, MaxLen)
  /\ variant = <<>>
  /\ key = <<>>
  /\ key_variant = <<>>
  /\ key_again = <<>>
  /\ npc = "input"
  /\ HeatIdle
  /\ FeedsIdle

\* a second spelling of text: one letter in the other case
VariantCase ==
  /\ npc = "input"
  /\ \E p \in 1..Len(text) :
       /\ swapcase(text[p]) # text[p]
       /\ variant' = [text EXCEPT ![p] = swapcase(text[p])]
  /\ npc' = "variant"
  /\ UNCHANGED <<text, key, key_variant, key_again, heat_vars, feed_vars>>

\* a second spelling of text: one letter with / without its accent
VariantAccent ==
  /\ npc = "input"
  /\ \E p \in 1..Len(text) :
       /\ swapaccent(text[p]) # text[p]
       /\ variant' = [text EXCEPT ![p] = swapaccent(text[p])]
  /\ npc' = "variant"
  /\ UNCHANGED <<text, key, key_variant, key_again, heat_vars, feed_vars>>

\* a second spelling of text: one punctuation character added anywhere
VariantPunctuation ==
  /\ npc = "input"
  /\ \E p \in 0..Len(text), ch \in Punctuation :
       variant' = SubSeq(text, 1, p) \o <<ch>> \o SubSeq(text, p + 1, Len(text))
  /\ npc' = "variant"
  /\ UNCHANGED <<text, key, key_variant, key_again, heat_vars, feed_vars>>

\* key = _normalize_text(text); key_variant = _normalize_text(variant)
Normalize ==
  /\ npc = "variant"
  /\ key' = _normalize_text(text)
  /\ key_variant' = _normalize_text(variant)
  /\ npc' = "normalized"
  /\ UNCHANGED <<text, variant, key_again, heat_vars, feed_vars>>

\* key_again = _normalize_text(key)
NormalizeAgain ==
  /\ npc = "normalized"
  /\ key_again' = _normalize_text(key)
  /\ npc' = "renormalized"
  /\ UNCHANGED <<text, variant, key, key_variant, heat_vars, feed_vars>>

NextNorm ==
  \/ VariantCase
  \/ VariantAccent
  \/ VariantPunctuation
  \/ Normalize
  \/ NormalizeAgain

SpecNorm == InitNorm /\ [][NextNorm]_vars

\* --------------------------------------------------- reference dataset
\* str(val) of a cell value
str(val) ==
  IF val = NaN THEN <<"n","a","n">>
  ELSE IF val = NoneVal THEN <<"N","o","n","e">>
  ELSE IF val = ListVal THEN <<"[","'","x","'","]">>
  ELSE IF val = NumVal THEN <<"1",".","0">>
  ELSE val

\* pandas.api.types.is_scalar(val)
is_scalar(val) == val # ListVal

PreferredNames == <<"ADMIN", "NAME_EN", "NAME", "name", "formal_en">>

column_names(w) == [i \in 1..Len(w.columns) |-> w.columns[i].name]

\* world[c].dtype == object
is_object(w, c) ==
  \E i \in 1..Len(w.columns) :
    w.columns[i].name = c /\ w.columns[i].dtype = "object"

\* pick_country_name_column raises ValueError
no_name_column(w) ==
  /\ \A i \in 1..Len(PreferredNames) : PreferredNames[i] \notin Range(column_names(w))
  /\ \A c \in Range(column_names(w)) : ~is_object(w, c)

\* the pick that walks the columns and takes the first one with a preferred
\* name, instead of walking the preferred names
pick_first_preferred_column(w) ==
  LET cols == column_names(w)
      hits == {i \in 1..Len(cols) : cols[i] \in Range(PreferredNames)}
      objs == {i \in 1..Len(cols) : is_object(w, cols[i])}
  IN  IF hits # {}
      THEN cols[CHOOSE i \in hits : \A j \in hits : i <= j]
      ELSE cols[CHOOSE i \in objs : \A j \in objs : i <= j]

\* pick_country_name_column(world), when it returns
pick_country_name_column(w) ==
  LET cols == column_names(w)
      hits == {i \in 1..Len(PreferredNames) : PreferredNames[i] \in Range(cols)}
      objs == {i \in 1..Len(cols) : is_object(w, cols[i])}
  IN  IF hits # {}
      THEN PreferredNames[CHOOSE i \in hits : \A j \in hits : i <= j]
      ELSE cols[CHOOSE i \in objs : \A j \in objs : i <= j]

\* candidate_cols of build_country_lookup
candidate_cols(w) ==
  LET name_col == pick_country_name_column(w)
  IN  <<name_col>> \o
      SelectSeq(column_names(w), LAMBDA c : c # name_col /\ is_object(w, c))

\* row[c]
cell(w, row, c) == row[IndexIn(column_names(w), c)]

\* one pass of "for c in candidate_cols" from column j on
RECURSIVE add_values(_, _, _, _, _, _)
add_values(d, w, row, cols, j, canonical) ==
  IF j > Len(cols) THEN d
  ELSE LET val == cell(w, row, cols[j])
           s == strip(str(val))
           k == _normalize_text(s)
       IN  IF ~is_scalar(val) THEN add_values(d, w, row, cols, j + 1, canonical)
           ELSE IF s = <<>> \/ lower_str(s) \in {<<"n","a","n">>, <<"n","o","n","e">>}
             THEN add_values(d, w, row, cols, j + 1, canonical)
           ELSE IF k # <<>>
             THEN add_values(dict_set(d, k, canonical), w, row, cols, j + 1, canonical)
           ELSE add_values(d, w, row, cols, j + 1, canonical)

\* the body of "for _, row in world[candidate_cols].iterrows()"
add_row(d, w, row) ==
  LET name_col == pick_country_name_column(w)
      canonical == strip(str(cell(w, row, name_col)))
      with_values == add_values(d, w, row, candidate_cols(w), 1, canonical)
      key_canon == _normalize_text(canonical)
  IN  IF canonical = <<>> THEN d
      ELSE IF key_canon # <<>> THEN dict_set(with_values, key_canon, canonical)
      ELSE with_values

\* the reference datasets of the runs
Schemas ==
  { <<[name |-> "ADMIN", dtype |-> "object"], [name |-> "ABBREV", dtype |-> "object"]>>,
    <<[name |-> "abbrev", dtype |-> "object"], [name |-> "name", dtype |-> "object"]>>,
    <<[name |-> "pop_est", dtype |-> "float64"], [name |-> "area", dtype |-> "float64"]>>,
    <<[name |-> "ADMIN", dtype |-> "float64"], [name |-> "pop_est", dtype |-> "float64"]>>,
    <<[name |-> "name", dtype |-> "object"], [name |-> "ADMIN", dtype |-> "object"]>>,
    <<[name |-> "pop_est", dtype |-> "float64"], [name |-> "country", dtype |-> "object"],
      [name |-> "alt", dtype |-> "object"]>> }

TextRows ==
  { <<<<"C","o","n","g","o">>, NaN>>,
    <<<<"C","O","N","G","O">>, <<"G","e","o","r","g","i","a",","," ","C","O","G">>>>,
    <<<<"G","e","o","r","g","i","a">>, <<"G","E">>>>,
    <<<<"U","n","i","t","e","d"," ","S","t","a","t","e","s">>, <<"G","e","o","r","g","i","a">>>>,
    <<<<" ">>, <<"T","X">>>> }

NumberRows == { <<NumVal, NumVal>> }

\* rows of the (abbrev, name) dataset
AbbrevRows ==
  { <<<<"G","e","o","r","g","i","a">>, <<"G","E">>>>,
    <<<<"U","n","i","t","e","d"," ","S","t","a","t","e","s">>, <<"G","e","o","r","g","i","a">>>>,
    <<<<" ">>, <<"T","X">>>> }

\* rows of the (name, ADMIN) dataset
PriorityRows ==
  { <<<<"P","E">>, <<"P","e","r","u">>>>,
    <<NoneVal, <<"C","h","a","d">>>> }

\* rows of the (pop_est, country, alt) dataset
FallbackRows ==
  { <<NumVal, <<"P","e","r","u">>, ListVal>>,
    <<NumVal, <<"C","h","a","d">>, NaN>> }

\* the rows a dataset with the columns cs can hold
RowsFor(cs) ==
  IF Len(cs) = 3 THEN FallbackRows
  ELSE IF \A i \in 1..Len(cs) : cs[i].dtype # "object" THEN NumberRows
  ELSE IF cs[1].name = "name" THEN PriorityRows
  ELSE IF cs[1].name = "abbrev" THEN AbbrevRows
  ELSE TextRows

RECURSIVE SeqsUpTo(_, _)
SeqsUpTo(S, n) ==
  IF n = 0 THEN {<<>>}
  ELSE LET shorter == SeqsUpTo(S, n - 1)
       IN  shorter \cup {Append(q, x) : q \in shorter, x \in S}

Worlds ==
  UNION { { [columns |-> cs, rows |-> rs] : rs \in SeqsUpTo(RowsFor(cs), MaxRecords) }
          : cs \in Schemas }

Locations ==
  { <<>>,
    <<"A","u","s","t","i","n",","," ","T","X">>,
    <<"A","t","l","a","n","t","a",","," ","G","e","o","r","g","i","a",","," ","U","n","i","t","e","d"," ","S","t","a","t","e","s">>,
    <<"T","X",","," ","C","o","n","g","o">>,
    <<"G","e","o","r","g","i","a",","," ","C","O","G">>,
    <<"G","e","o","r","g","i","a",","," ","T","X">> }

\* ---------------------------------------------------------- resolution
\* str.split(sep)
RECURSIVE split(_, _)
split(s, sep) ==
  LET at == {i \in 1..Len(s) : s[i] = sep}
  IN  IF at = {} THEN <<s>>
      ELSE LET p == CHOOSE i \in at : \A j \in at : i <= j
           IN  <<SubSeq(s, 1, p - 1)>> \o split(SubSeq(s, p + 1, Len(s)), sep)

\* [t.strip() for t in str(location).split(",") if t.strip()]
tokens_of(location) ==
  LET parts == split(location, ",")
  IN  SelectSeq([i \in 1..Len(parts) |-> strip(parts[i])], LAMBDA tk : tk # <<>>)

\* re.fullmatch(r"[A-Z]{2}", token)
is_two_caps(token) ==
  /\ Len(token) = 2
  /\ token[1] \in AsciiUpper
  /\ token[2] \in AsciiUpper

UnitedStates == <<"U","n","i","t","e","d"," ","S","t","a","t","e","s">>

\* country_lookup.get(_normalize_text("United States"), "United States")
us_guess(d) ==
  LET us_key == _normalize_text(UnitedStates)
  IN  IF us_key \in DOMAIN d THEN d[us_key] ELSE UnitedStates

\* "for token in tokens": the scan without reversed(), k tokens left
RECURSIVE scan_tokens_left_first(_, _, _, _)
scan_tokens_left_first(tokens, k, d, allow) ==
  IF k = 0 THEN NoneVal
  ELSE LET token == tokens[Len(tokens) - k + 1]
           tkey == _normalize_text(token)
       IN  IF tkey \in DOMAIN d THEN d[tkey]
           ELSE IF allow /\ is_two_caps(token) THEN us_guess(d)
           ELSE scan_tokens_left_first(tokens, k - 1, d, allow)

\* the scan with the two-letter rule not guarded by allow_us_state_guess
RECURSIVE scan_tokens_always_guess(_, _, _, _)
scan_tokens_always_guess(tokens, k, d, allow) ==
  IF k = 0 THEN NoneVal
  ELSE LET token == tokens[k]
           tkey == _normalize_text(token)
       IN  IF tkey \in DOMAIN d THEN d[tkey]
           ELSE IF is_two_caps(token) THEN us_guess(d)
           ELSE scan_tokens_always_guess(tokens, k - 1, d, allow)

\* a right-to-left scan that tests the table only
RECURSIVE scan_aliases(_, _, _)
scan_aliases(tokens, k, d) ==
  IF k = 0 THEN NoneVal
  ELSE IF _normalize_text(tokens[k]) \in DOMAIN d THEN d[_normalize_text(tokens[k])]
  ELSE scan_aliases(tokens, k - 1, d)

\* the scan as two passes: every token against the table first, the
\* two-letter rule only when no token is a key
scan_tokens_two_passes(tokens, k, d, allow) ==
  IF scan_aliases(tokens, k, d) # NoneVal THEN scan_aliases(tokens, k, d)
  ELSE IF allow /\ \E i \in 1..k : is_two_caps(tokens[i]) THEN us_guess(d)
  ELSE NoneVal

\* "for token in reversed(tokens)" from token k down to the first
RECURSIVE scan_tokens(_, _, _, _)
scan_tokens(tokens, k, d, allow) ==
  IF k = 0 THEN NoneVal
  ELSE LET token == tokens[k]
           tkey == _normalize_text(token)
       IN  IF tkey \in DOMAIN d THEN d[tkey]
           ELSE IF allow /\ is_two_caps(token) THEN us_guess(d)
           ELSE scan_tokens(tokens, k - 1, d, allow)

\* the resolver without its full string pass
infer_country_tokens_only(location, d, allow) ==
  IF location = <<>> THEN NoneVal
  ELSE scan_tokens(tokens_of(location), Len(tokens_of(location)), d, allow)

\* infer_country_from_location(location, country_lookup, allow_us_state_guess=allow)
infer_country_from_location(location, d, allow) ==
  IF location = <<>> THEN NoneVal
  ELSE LET full_key == _normalize_text(location)
           tokens == tokens_of(location)
       IN  IF full_key \in DOMAIN d THEN d[full_key]
           ELSE scan_tokens(tokens, Len(tokens), d, allow)

\* --------------------------------------------------- aggregation and join
\* a dropna() that drops nothing
dropna_keep_all(series) == series

\* Series.dropna()
dropna(series) == SelectSeq(series, LAMBDA x : x # NoneVal /\ x # NaN)

\* a value_counts() that records each value once instead of counting it
RECURSIVE value_counts_no_increment(_, _, _)
value_counts_no_increment(series, i, counts) ==
  IF i > Len(series) THEN counts
  ELSE value_counts_no_increment(series, i + 1, dict_set(counts, series[i], 1))

\* Series.value_counts(): one counter per distinct value, rows i..end
RECURSIVE value_counts(_, _, _)
value_counts(series, i, counts) ==
  IF i > Len(series) THEN counts
  ELSE LET c == series[i]
           n == IF c \in DOMAIN counts THEN counts[c] + 1 ELSE 1
       IN  value_counts(series, i + 1, dict_set(counts, c, n))

\* the missing job_count of an unmatched row of the left join (float NaN)
NoCount == -1

\* .str.strip().str.lower()
join_name(s) == lower_str(strip(s))

\* world.merge(cc[["_join_name", "job_count"]], on="_join_name", how="left"):
\* one row per (left row, matching right row), one row for an unmatched left
\* row.  left is the position of the reference record, right the country of cc.
left_join(w, counts) ==
  LET name_col == pick_country_name_column(w)
      left_name(i) == join_name(str(cell(w, w.rows[i], name_col)))
      matches(i) == {c \in DOMAIN counts : join_name(c) = left_name(i)}
  IN  UNION { IF matches(i) = {}
                THEN {[left |-> i, right |-> NaN, job_count |-> NoCount]}
                ELSE {[left |-> i, right |-> c, job_count |-> counts[c]] :
                        c \in matches(i)}
              : i \in 1..Len(w.rows) }

\* ----------------------------------------------- plot_country_heatmap run
Init ==
  /\ world \in Worlds
  /\ df = <<>>
  /\ allow_us_state_guess \in BOOLEAN
  /\ pc = "start"
  /\ picked_name_col = ""
  /\ row_i = 1
  /\ lookup = EmptyDict
  /\ countries = <<>>
  /\ country_counts = EmptyDict
  /\ merged = {}
  /\ text = <<>>
  /\ variant = <<>>
  /\ key = <<>>
  /\ key_variant = <<>>
  /\ key_again = <<>>
  /\ npc = "idle"
  /\ FeedsIdle

\* build_country_lookup: pick_country_name_column raises ValueError
SchemaError ==
  /\ pc = "start"
  /\ no_name_column(world)
  /\ pc' = "schema_error"
  /\ UNCHANGED <<world, picked_name_col, df, allow_us_state_guess, row_i, lookup,
                 countries, country_counts, merged, norm_vars, feed_vars>>

\* build_country_lookup: name column picked, lookup = {}
BuildStart ==
  /\ pc = "start"
  /\ ~no_name_column(world)
  /\ picked_name_col' = pick_country_name_column(world)
  /\ lookup' = EmptyDict
  /\ row_i' = 1
  /\ pc' = "build"
  /\ UNCHANGED <<world, df, allow_us_state_guess,
                 countries, country_counts, merged, norm_vars, feed_vars>>

\* build_country_lookup: one iteration of the loop over the rows
BuildRow ==
  /\ pc = "build"
  /\ row_i <= Len(world.rows)
  /\ lookup' = add_row(lookup, world, world.rows[row_i])
  /\ row_i' = row_i + 1
  /\ UNCHANGED <<world, picked_name_col, df, allow_us_state_guess, pc,
                 countries, country_counts, merged, norm_vars, feed_vars>>

\* build_country_lookup: return lookup
BuildReturn ==
  /\ pc = "build"
  /\ row_i > Len(world.rows)
  /\ pc' = "resolve"
  /\ UNCHANGED <<world, picked_name_col, df, allow_us_state_guess, row_i, lookup,
                 countries, country_counts, merged, norm_vars, feed_vars>>

\* df["location"].apply(...): the next row of the jobs table is resolved
ResolveRow ==
  /\ pc = "resolve"
  /\ Len(df) < MaxRows
  /\ \E location \in Locations :
       /\ df' = Append(df, location)
       /\ countries' = Append(countries,
            infer_country_from_location(location, lookup, allow_us_state_guess))
  /\ UNCHANGED <<world, picked_name_col, allow_us_state_guess, pc, row_i, lookup,
                 country_counts, merged, norm_vars, feed_vars>>

\* the last row is resolved and countries.dropna() is empty: raise ValueError
AggregateNoData ==
  /\ pc = "resolve"
  /\ dropna(countries) = <<>>
  /\ pc' = "no_data"
  /\ UNCHANGED <<world, picked_name_col, df, allow_us_state_guess, row_i, lookup,
                 countries, country_counts, merged, norm_vars, feed_vars>>

\* the last row is resolved: country_counts = countries.dropna().value_counts()
Aggregate ==
  /\ pc = "resolve"
  /\ dropna(countries) # <<>>
  /\ country_counts' = value_counts(dropna(countries), 1, EmptyDict)
  /\ pc' = "counted"
  /\ UNCHANGED <<world, picked_name_col, df, allow_us_state_guess, row_i, lookup,
                 countries, merged, norm_vars, feed_vars>>

\* world = world.merge(cc, on="_join_name", how="left")
Join ==
  /\ pc = "counted"
  /\ merged' = left_join(world, country_counts)
  /\ pc' = "joined"
  /\ UNCHANGED <<world, picked_name_col, df, allow_us_state_guess, row_i, lookup,
                 countries, country_counts, norm_vars, feed_vars>>

Next ==
  \/ SchemaError
  \/ BuildStart
  \/ BuildRow
  \/ BuildReturn
  \/ ResolveRow
  \/ AggregateNoData
  \/ Aggregate
  \/ Join

Spec == Init /\ [][Next]_vars

\* ------------------------------------------------ JobsSpider.on_feeds_ready
\* attempts = 10
attempts == 10

\* what a call of make_all_charts can raise: pandas.errors.EmptyDataError and
\* ParserError from read_csv, ValueError from load_jobs_csv and the plots,
\* FileNotFoundError from read_csv or read_world_countries
Raisable == {"EmptyDataError", "ParserError", "ValueError", "FileNotFoundError"}

\* the classes an exception is an instance of
mro(e) ==
  CASE e = "EmptyDataError" -> {"EmptyDataError", "ValueError", "Exception"}
    [] e = "ParserError" -> {"ParserError", "ValueError", "Exception"}
    [] e = "ValueError" -> {"ValueError", "Exception"}
    [] e = "FileNotFoundError" -> {"FileNotFoundError", "OSError", "Exception"}

\* isinstance(e, classes), the test of an except clause
isinstance(e, classes) == mro(e) \cap classes # {}

\* the classes the names EmptyDataError and ParserError are bound to: those of
\* pandas.errors, or Exception for both when the import raised
RetryClasses ==
  IF errors_imported THEN {"EmptyDataError", "ParserError"} ELSE {"Exception"}

\* the feed signal fires on a spider; both outcomes of the module's import of
\* pandas.errors, output_file as __init__ or from_crawler left it
InitFeeds ==
  /\ errors_imported \in BOOLEAN
  /\ output_file \in {"None", "jobs.csv"}
  /\ csv_exists \in BOOLEAN
  /\ output_file = "None" => ~csv_exists
  /\ fpc = "signal"
  /\ attempt_i = 0
  /\ calls = 0
  /\ raised = "none"
  /\ logged = ""
  /\ propagated = FALSE
  /\ HeatIdle
  /\ text = <<>>
  /\ variant = <<>>
  /\ key = <<>>
  /\ key_variant = <<>>
  /\ key_again = <<>>
  /\ npc = "idle"

\* if not self.output_file or not self.output_file.exists(): warning, return
SkipAnalytics ==
  /\ fpc = "signal"
  /\ output_file = "None" \/ ~csv_exists
  /\ logged' = "skipped"
  /\ fpc' = "returned"
  /\ UNCHANGED <<errors_imported, output_file, csv_exists, attempt_i, calls, raised,
                 propagated, norm_vars, heat_vars>>

\* the file exists: attempts = 10, the loop starts with i = 1
StartAnalytics ==
  /\ fpc = "signal"
  /\ ~(output_file = "None" \/ ~csv_exists)
  /\ attempt_i' = 1
  /\ fpc' = "loop"
  /\ UNCHANGED <<errors_imported, output_file, csv_exists, calls, raised, logged,
                 propagated, norm_vars, heat_vars>>

\* make_all_charts returns: "Analytics complete.", return
AttemptSucceeds ==
  /\ fpc = "loop"
  /\ calls' = calls + 1
  /\ raised' = "none"
  /\ logged' = "complete"
  /\ fpc' = "returned"
  /\ UNCHANGED <<errors_imported, output_file, csv_exists, attempt_i, propagated,
                 norm_vars, heat_vars>>

\* make_all_charts raises, except (EmptyDataError, ParserError) catches it and
\* i is not the last attempt: log, sleep, next i
AttemptRetried ==
  /\ fpc = "loop"
  /\ attempt_i # attempts
  /\ \E e \in Raisable :
       /\ isinstance(e, RetryClasses)
       /\ raised' = e
  /\ calls' = calls + 1
  /\ attempt_i' = attempt_i + 1
  /\ UNCHANGED <<errors_imported, output_file, csv_exists, fpc, logged, propagated,
                 norm_vars, heat_vars>>

\* make_all_charts raises and the inner except clause does not catch it, or
\* re-raises it on the last attempt: the outer except Exception logs it
AttemptFails ==
  /\ fpc = "loop"
  /\ \E e \in Raisable :
       /\ ~isinstance(e, RetryClasses) \/ attempt_i = attempts
       /\ raised' = e
       /\ IF isinstance(e, {"Exception"})
            THEN logged' = "failed" /\ propagated' = FALSE
            ELSE logged' = logged /\ propagated' = TRUE
  /\ calls' = calls + 1
  /\ fpc' = "returned"
  /\ UNCHANGED <<errors_imported, output_file, csv_exists, attempt_i, norm_vars,
                 heat_vars>>

NextFeeds ==
  \/ SkipAnalytics
  \/ StartAnalytics
  \/ AttemptSucceeds
  \/ AttemptRetried
  \/ AttemptFails

SpecFeeds == InitFeeds /\ [][NextFeeds]_vars

TypeOK ==
  /\ pc \in {"idle", "start", "schema_error", "build", "resolve", "no_data",
             "counted", "joined"}
  /\ row_i \in 1..(Len(world.rows) + 1)
  /\ Len(df) <= MaxRows
  /\ Len(countries) = Len(df)

\* C1: normalize is idempotent, normalize(normalize(s)) = normalize(s), and
\* its result has no leading or trailing whitespace.
C1_Idempotent ==
  npc = "renormalized" =>
    /\ key_again = key
    /\ strip(key) = key

\* C2: two strings that differ only in the case of a letter, in an accent on
\* a letter, or in one added punctuation character normalize to the same key.
C2_Insensitive ==
  npc \in {"normalized", "renormalized"} => key = key_variant

\* ------------------------------------------------------------ properties
Built == pc \in {"resolve", "no_data", "counted", "joined"}

Resolved == 1..Len(countries)

\* ResolveRow has just resolved row Len(df); the earlier rows were the newest
\* row of an earlier state, and df and countries only grow
NewRow == pc = "resolve" /\ df # <<>>

MaxOf(S) == CHOOSE x \in S : \A y \in S : y <= x

\* C3: every canonical name c stored as a value of the finished table is the
\* value of the key normalize(c), and resolving c with the guess off gives c.
C3_SelfMapping ==
  Built =>
    \A c \in Range(lookup) :
      /\ _normalize_text(c) \in DOMAIN lookup
      /\ lookup[_normalize_text(c)] = c
      /\ infer_country_from_location(c, lookup, FALSE) = c

\* the normalized tokens of a location, left to right
TokenKeys(location) ==
  LET tk == tokens_of(location)
  IN  [k \in 1..Len(tk) |-> _normalize_text(tk[k])]

\* positions of the tokens whose normalized form is a key of the table
Matching(keys) == {k \in DOMAIN keys : keys[k] \in DOMAIN lookup}

\* C4: with the guess off and no whole-string match, the result is the table
\* value of the rightmost token whose normalized form is a key, and None when
\* no token matches.
C4_RightToLeft ==
  (/\ NewRow
   /\ ~allow_us_state_guess
   /\ _normalize_text(df[Len(df)]) \notin DOMAIN lookup) =>
    LET keys == TokenKeys(df[Len(df)])
        hits == Matching(keys)
    IN  countries[Len(df)] =
          IF hits = {} THEN NoneVal ELSE lookup[keys[MaxOf(hits)]]

C4_Witness ==
  \E j \in Resolved :
    LET keys == TokenKeys(df[j])
        hits == Matching(keys)
    IN  /\ ~allow_us_state_guess
        /\ _normalize_text(df[j]) \notin DOMAIN lookup
        /\ \E a, b \in hits :
             /\ a < b
             /\ b = MaxOf(hits)
             /\ lookup[keys[a]] # lookup[keys[b]]
             /\ countries[j] = lookup[keys[b]]

\* C5: when the whole normalized location is a key, the result is the value
\* of that key, for either value of allow_us_state_guess and whatever the
\* tokens map to.
C5_WholeStringFirst ==
  NewRow =>
    LET full_key == _normalize_text(df[Len(df)])
    IN  full_key \in DOMAIN lookup => countries[Len(df)] = lookup[full_key]

C5_Witness ==
  \E j \in Resolved :
    LET full_key == _normalize_text(df[j])
        keys == TokenKeys(df[j])
        hits == Matching(keys)
    IN  /\ full_key \in DOMAIN lookup
        /\ hits # {}
        /\ lookup[keys[MaxOf(hits)]] # lookup[full_key]
        /\ countries[j] = lookup[full_key]

\* the table values a location reaches through a key: whole string or token
KeyMatchValues(location) ==
  LET keys == TokenKeys(location)
  IN  {lookup[k] : k \in ({_normalize_text(location)} \cup Range(keys)) \cap DOMAIN lookup}

AustinTX == <<"A","u","s","t","i","n",","," ","T","X">>

UsKey == <<"u","n","i","t","e","d"," ","s","t","a","t","e","s">>

UsOrLiteral == IF UsKey \in DOMAIN lookup THEN lookup[UsKey] ELSE UnitedStates

\* the guess-off half of C6: the result is None or a table value reached
\* through a key, and None for the empty location and without a matching key
GuessOff(j) ==
  ~allow_us_state_guess =>
    LET reached == KeyMatchValues(df[j])
    IN  /\ countries[j] \in {NoneVal} \cup reached
        /\ (df[j] = <<>> \/ reached = {}) => countries[j] = NoneVal

\* C6 as stated: the guess-off half, and with the guess on "Austin, TX"
\* resolves to the table's value for "united states", else to the literal.
C6_AsStated ==
  NewRow =>
    /\ GuessOff(Len(df))
    /\ (allow_us_state_guess /\ df[Len(df)] = AustinTX) =>
         countries[Len(df)] = UsOrLiteral

\* C6 amended: the guess-off half, and with the guess on "Austin, TX" resolves
\* to the table's value for "united states", else to the literal, provided
\* neither "austin tx" nor "tx" is a key of the table.
C6_Gating ==
  NewRow =>
    /\ GuessOff(Len(df))
    /\ ( /\ allow_us_state_guess
         /\ df[Len(df)] = AustinTX
         /\ <<"a","u","s","t","i","n"," ","t","x">> \notin DOMAIN lookup
         /\ <<"t","x">> \notin DOMAIN lookup ) => countries[Len(df)] = UsOrLiteral

C6_Witness ==
  \E j \in Resolved :
    /\ allow_us_state_guess
    /\ df[j] = AustinTX
    /\ DOMAIN lookup # {}
    /\ UsKey \notin DOMAIN lookup
    /\ countries[j] = UnitedStates

RECURSIVE SumOver(_, _)
SumOver(counts, S) ==
  IF S = {} THEN 0
  ELSE LET c == CHOOSE x \in S : TRUE
       IN  counts[c] + SumOver(counts, S \ {c})

\* C7: the counts sum to the number of non-None resolved entries, every count
\* is at least 1, and the count of a name is its multiplicity in the resolved
\* sequence (so the order of the rows does not matter).
C7_AggregationTotal ==
  pc = "counted" =>
    /\ SumOver(country_counts, DOMAIN country_counts) =
         Cardinality({j \in Resolved : countries[j] # NoneVal})
    /\ \A c \in DOMAIN country_counts :
         /\ country_counts[c] >= 1
         /\ country_counts[c] = Cardinality({j \in Resolved : countries[j] = c})
    /\ \A j \in Resolved :
         countries[j] # NoneVal => countries[j] \in DOMAIN country_counts

C7_Witness ==
  /\ pc = "counted"
  /\ \E c \in DOMAIN country_counts : country_counts[c] = 2

\* C8: the left join has exactly one output row per reference record.
C8_JoinComplete ==
  pc = "joined" =>
    \A i \in 1..Len(world.rows) : Cardinality({r \in merged : r.left = i}) = 1

\* the canonical name of reference record i
CanonicalOf(i) ==
  strip(str(cell(world, world.rows[i], pick_country_name_column(world))))

\* the keys reference record i contributes: its usable text values and its
\* canonical name, normalized
KeysOf(i) ==
  IF CanonicalOf(i) = <<>> THEN {}
  ELSE ({_normalize_text(strip(str(cell(world, world.rows[i], c)))) :
           c \in {x \in Range(candidate_cols(world)) :
                    /\ cell(world, world.rows[i], x) # ListVal
                    /\ lower_str(strip(str(cell(world, world.rows[i], x))))
                         \notin {<<"n","a","n">>, <<"n","o","n","e">>}}}
        \cup {_normalize_text(CanonicalOf(i))}) \ {<<>>}

\* C9: a key contributed by several records maps to the canonical name of the
\* last of them in the order of the rows, at every point of the build (the
\* finished table is the one of the build state with no row left).
C9_LastWriteWins ==
  pc = "build" =>
    LET keys == [i \in 1..(row_i - 1) |-> KeysOf(i)]
    IN  /\ DOMAIN lookup = UNION {keys[i] : i \in DOMAIN keys}
        /\ \A k \in DOMAIN lookup :
             lookup[k] = CanonicalOf(MaxOf({i \in DOMAIN keys : k \in keys[i]}))

C9_Witness ==
  /\ Built
  /\ \E a, b \in 1..Len(world.rows) :
       /\ a < b
       /\ CanonicalOf(a) # CanonicalOf(b)
       /\ \E k \in KeysOf(a) \cap KeysOf(b) : lookup[k] = CanonicalOf(b)

\* C10: the no-data error is raised exactly when no entry resolved; otherwise
\* the count table is not empty.
C10_NoData ==
  /\ pc = "no_data" => \A j \in Resolved : countries[j] = NoneVal
  /\ pc \in {"counted", "joined"} =>
       /\ \E j \in Resolved : countries[j] # NoneVal
       /\ DOMAIN country_counts # {}

C10_Witness ==
  /\ pc = "no_data"
  /\ df # <<>>
  /\ DOMAIN lookup # {}

\* the dataset has a column with a preferred name
HasPreferred == \E i \in 1..Len(PreferredNames) :
  \E c \in 1..Len(world.columns) : world.columns[c].name = PreferredNames[i]

\* the positions of the text-valued columns of the dataset
TextColumns == {c \in 1..Len(world.columns) : world.columns[c].dtype = "object"}

\* the column the priority order, then the column order, selects
SelectedColumn ==
  IF HasPreferred
  THEN LET present == {i \in 1..Len(PreferredNames) :
                         \E c \in 1..Len(world.columns) :
                           world.columns[c].name = PreferredNames[i]}
       IN  PreferredNames[CHOOSE i \in present : \A j \in present : i <= j]
  ELSE world.columns[CHOOSE c \in TextColumns : \A e \in TextColumns : c <= e].name

\* C11 as stated: the column is the first preferred name present, else the
\* first text-valued column, and the builder fails with the schema error
\* exactly when the dataset has no text-valued column.  (The outcome of the
\* selection is fixed from the first build state on.)
C11_AsStated ==
  pc \in {"schema_error", "build"} =>
    /\ pc = "schema_error" <=> TextColumns = {}
    /\ pc # "schema_error" => picked_name_col = SelectedColumn

\* C11 amended: the column is the first preferred name present (whatever its
\* dtype), else the first text-valued column, and the builder fails with the
\* schema error exactly when no preferred name is a column and no column is
\* text-valued; the values of the records play no part in it.
C11_ColumnSelection ==
  pc \in {"schema_error", "build"} =>
    /\ pc = "schema_error" <=> (~HasPreferred /\ TextColumns = {})
    /\ pc # "schema_error" => picked_name_col = SelectedColumn

C11_Witness ==
  /\ Built
  /\ ~HasPreferred
  /\ picked_name_col = "country"
  /\ \E i \in 1..Len(world.rows) : world.rows[i][3] = ListVal
  /\ \E i \in 1..Len(world.rows) : world.rows[i][3] = NaN

\* C12: with the guess on and no whole-string match, the rightmost token that
\* is a key of the table or, raw, two uppercase letters decides: a key gives
\* its table value, a two-letter token that is not a key gives the value of
\* "united states", else the literal; tokens further left are not consulted.
C12_SinglePass ==
  (/\ NewRow
   /\ allow_us_state_guess
   /\ _normalize_text(df[Len(df)]) \notin DOMAIN lookup) =>
    LET tk == tokens_of(df[Len(df)])
        keys == TokenKeys(df[Len(df)])
        deciding == {k \in DOMAIN keys : keys[k] \in DOMAIN lookup \/ is_two_caps(tk[k])}
    IN  countries[Len(df)] =
          IF deciding = {} THEN NoneVal
          ELSE IF keys[MaxOf(deciding)] \in DOMAIN lookup
            THEN lookup[keys[MaxOf(deciding)]]
          ELSE UsOrLiteral

\* a two-letter token that is not a key stands right of a country alias
C12_Witness ==
  /\ NewRow
  /\ allow_us_state_guess
  /\ _normalize_text(df[Len(df)]) \notin DOMAIN lookup
  /\ LET tk == tokens_of(df[Len(df)])
         keys == TokenKeys(df[Len(df)])
     IN  /\ Len(tk) = 2
         /\ keys[1] \in DOMAIN lookup
         /\ keys[2] \notin DOMAIN lookup
         /\ is_two_caps(tk[2])
         /\ countries[Len(df)] = UsOrLiteral
         /\ countries[Len(df)] # lookup[keys[1]]

\* C13: on_feeds_ready calls make_all_charts at most 10 times, stops at the
\* first call that succeeds, makes a further call only after a call that
\* raised a CSV empty/parse error (any other error ends the attempts at
\* once), makes no call at all when the output file is absent, and never lets
\* an exception out.
C13_Retry ==
  /\ calls <= attempts
  /\ (fpc = "loop" /\ calls > 0) => raised \in {"EmptyDataError", "ParserError"}
  /\ (fpc = "returned" /\ logged = "complete") => raised = "none"
  /\ (output_file = "None" \/ ~csv_exists) =>
       /\ calls = 0
       /\ fpc = "returned" => logged = "skipped"
  /\ ~propagated

====
